---- MODULE Spec2Model ----
(***************************************************************************)
(* Model of the autonomous budget travel planner's orchestrator            *)
(* (src/main.py), its planner and replanner (src/agents/planner_agent.py,  *)
(* src/agents/replanner_agent.py), the budget review step                  *)
(* (src/agents/budget_review_agent.py) and the agents it drives.           *)
(*                                                                         *)
(* Money is an integer number of hundredths (paise): every agent rounds    *)
(* its cost to two decimals before returning it.  A Python dict is a       *)
(* function whose DOMAIN is its key set; a key that is absent is absent    *)
(* from the DOMAIN.                                                        *)
(***************************************************************************)
EXTENDS Integers, Sequences, FiniteSets, TLC

VARIABLES
  llm,            \* GROQ_LLM is configured (helpers.py:60)
  session,        \* st.session_state: the budget-review and itinerary caches
  clock,          \* datetime.utcnow() in whole seconds
  pc,             \* position of create_and_run_planner
  plan,           \* the current plan (main.py:93, 247, 312)
  tasks,          \* plan["tasks"] as read at main.py:100, 248, 313
  state,          \* the mutable RunState (main.py:106)
  i,              \* task index (main.py:148)
  replan_count,   \* main.py:149
  failure_context,\* main.py:241-245, 310: set when a failure was detected
  batch,          \* the running parallel batch: tasks, pending workers, results
  calls,          \* history: every agent / replanner invocation, in order
  plan_ids,       \* history: the plan_id of every plan the run obtained
  draws,         \* non-nominal outcomes and reordered completions drawn so far
  probe           \* the last call of a function checked in isolation

vars == <<llm, session, clock, pc, plan, tasks, state, i, replan_count,
          failure_context, batch, calls, plan_ids, draws, probe>>

(***************************************************************************)
(* Program constants                                                       *)
(***************************************************************************)
MAX_REPLANS == 3
MAX_WORKERS == 3
MAX_PLAN_TASKS == 8
MAX_LLM_ATTEMPTS == 2

(***************************************************************************)
(* Bounds of the model                                                     *)
(***************************************************************************)
MaxDraws == 4        \* non-nominal outcomes and reordered completions per run
MaxProbeLog == 2      \* length of the logs the merge probe starts from
MaxLatency == 3       \* longest time, in ticks, a generation call that returns takes

NoneStr == "None"     \* str(None), and the model's None for a string slot

CostNodes == {"FLIGHT_AGENT", "ACCOMMODATION_AGENT", "FOOD_AGENT", "ACTIVITIES_AGENT"}

\* main.py:112-120
NODE_TO_FUNC == CostNodes \cup {"TOTAL_COST_CHECK", "BUDGET_REVIEW", "ITINERARY_PLANNER"}

CostKey(node) ==
  CASE node = "FLIGHT_AGENT" -> "flight_cost"
    [] node = "ACCOMMODATION_AGENT" -> "accommodation_cost"
    [] node = "FOOD_AGENT" -> "food_cost"
    [] node = "ACTIVITIES_AGENT" -> "activities_cost"

\* helpers.py:71-79: no node declares retry_strategy or fallback_providers
CAPABILITY_MANIFEST == [n \in NODE_TO_FUNC |-> [parallelizable |-> n \in CostNodes \ {"FLIGHT_AGENT"}]]

(***************************************************************************)
(* dict helpers                                                            *)
(***************************************************************************)
Has(d, k) == k \in DOMAIN d
Get(d, k, default) == IF k \in DOMAIN d THEN d[k] ELSE default

\* {**a, **b}
Update(a, b) == [k \in DOMAIN a \cup DOMAIN b |-> IF k \in DOMAIN b THEN b[k] ELSE a[k]]

IsPrefix(s, t) == Len(s) <= Len(t) /\ SubSeq(t, 1, Len(s)) = s

\* A Python value stored under "messages" or "trace": a list, or one non-list value
List(items) == [list |-> TRUE, items |-> items]
Scalar(x) == [list |-> FALSE, items |-> <<x>>]

\* A partial that is no dict at all (None, a string, ...)
NonDict == [nondict |-> TRUE]
IsDict(p) == ~Has(p, "nondict")

EmptyDict == [k \in {} |-> 0]

(***************************************************************************)
(* State Merger: merge_partial_state, main.py:61-80                        *)
(***************************************************************************)
MergeLogOverwrite(old, v) == v.items

\* main.py:66-77: extend with a list, append any other value
MergeLog(old, v) == IF v.list THEN old \o v.items ELSE Append(old, v.items[1])

merge_partial_state(main_state, partial) ==
  IF ~IsDict(partial) THEN main_state
  ELSE [k \in DOMAIN main_state \cup DOMAIN partial |->
          IF k \notin DOMAIN partial THEN main_state[k]
          ELSE IF k \in {"messages", "trace"}
               THEN MergeLog(Get(main_state, k, <<>>), partial[k])
               ELSE partial[k]]

\* main.py:163-171, 229-237, 287-295
recompute_remaining(s) ==
  [s EXCEPT !.remaining_budget =
     Get(s, "budget", 0) - (s.flight_cost + s.accommodation_cost + s.food_cost + s.activities_cost)]

(***************************************************************************)
(* Arithmetic of the agents                                                *)
(***************************************************************************)
\* round(n / d) to the nearest integer, ties to even (Python's round), n >= 0, d > 0
RoundHalfEven(n, d) ==
  LET q == n \div d
      r == n % d
  IN IF 2 * r < d THEN q
     ELSE IF 2 * r > d THEN q + 1
     ELSE IF q % 2 = 0 THEN q ELSE q + 1

\* int(x) of an amount in rupees: truncation toward zero of paise / 100
IntRupees(x) == IF x >= 0 THEN x \div 100 ELSE -((-x) \div 100)

Max2(a, b) == IF a >= b THEN a ELSE b

(***************************************************************************)
(* The agents.  A cost agent's headline cost is what its external API      *)
(* answers: OkCost(node), or 0 when the agent absorbs an API failure       *)
(* (flight_agent.py:41-48, accommodation_agent.py:35-39, food_agent.py:28-33).*)
(***************************************************************************)
OkCost(node) ==
  CASE node = "FLIGHT_AGENT" -> 9000
    [] node = "ACCOMMODATION_AGENT" -> 7000
    [] node = "FOOD_AGENT" -> 2000
    [] node = "ACTIVITIES_AGENT" -> 1500

NextOf(node) ==
  CASE node = "FLIGHT_AGENT" -> "ACCOMMODATION_AGENT"
    [] node = "ACCOMMODATION_AGENT" -> "FOOD_AGENT"
    [] node = "FOOD_AGENT" -> "ACTIVITIES_AGENT"
    [] node = "ACTIVITIES_AGENT" -> "TOTAL_COST_CHECK"

DetailsKey(node) ==
  CASE node = "FLIGHT_AGENT" -> "flight_details"
    [] node = "ACCOMMODATION_AGENT" -> "accommodation_details"
    [] node = "FOOD_AGENT" -> "food_itinerary"
    [] node = "ACTIVITIES_AGENT" -> "activities_plan"

\* flight_agent.py:69-80, accommodation_agent.py:48, food_agent.py:49-60,
\* activities_agent.py:82-89: the partial a cost agent returns for headline cost c
cost_agent(node, s, c) ==
  LET remaining == Get(s, "remaining_budget", Get(s, "budget", 0))
      base == [k \in {CostKey(node)} |-> c]
      details == [k \in {DetailsKey(node)} |-> node]
  IN Update(Update(base, details),
            [remaining_budget |-> remaining - c,
             messages |-> List(<<"cost added: " \o node>>),
             next_action |-> NextOf(node),
             trace |-> List(<<[node |-> node, cost |-> c]>>)])

\* total_cost_agent.py:4-14
total_cost_check(s) ==
  IF Get(s, "remaining_budget", 0) < 0
  THEN [messages |-> List(<<"Total cost exceeded budget.">>), next_action |-> "BUDGET_REVIEW"]
  ELSE [messages |-> List(<<"Total cost within budget.">>), next_action |-> "ITINERARY_PLANNER"]

\* budget_review_agent.py:34: the cache key, built from int(budget) and int(remaining)
review_key(s) == <<IntRupees(Get(s, "budget", 0)), IntRupees(Get(s, "remaining_budget", 0))>>

\* budget_review_agent.py:86-91: max(costs, key=costs.get) over flight,
\* accommodation, activities in that order (the first largest wins)
largest_cost_key(s) ==
  LET f == Get(s, "flight_cost", 0)
      a == Get(s, "accommodation_cost", 0)
      v == Get(s, "activities_cost", 0)
  IN IF f >= a /\ f >= v THEN "flight_cost"
     ELSE IF a >= v THEN "accommodation_cost"
     ELSE "activities_cost"

\* budget_review_agent.py:40-143, past the early return and the cache:
\* suggestion is the advice text ("llm" when the generation call answered)
budget_review_compute(s, suggestion) ==
  LET key == largest_cost_key(s)
      cost == Get(s, key, 0)
      cut_amount == RoundHalfEven(cost * 20, 100)
      new_cost_value == Max2(0, cost - cut_amount)
      costs == Update([flight_cost |-> Get(s, "flight_cost", 0),
                       accommodation_cost |-> Get(s, "accommodation_cost", 0),
                       activities_cost |-> Get(s, "activities_cost", 0)],
                      [k \in {key} |-> new_cost_value])
      recomputed_sum == costs.flight_cost + costs.accommodation_cost
                        + costs.activities_cost + Get(s, "food_cost", 0)
      new_remaining_budget == Get(s, "budget", 0) - recomputed_sum
  IN Update([k \in {key} |-> new_cost_value],
            [suggestion |-> suggestion,
             action |-> <<key, cut_amount>>,
             remaining_budget |-> new_remaining_budget,
             is_budget_met |-> new_remaining_budget >= 0,
             messages |-> List(<<"Budget review applied", "Recomputed remaining budget">>),
             next_action |-> IF new_remaining_budget >= 0 THEN "ITINERARY_PLANNER"
                             ELSE "BUDGET_REVIEW"])

\* budget_review_agent.py:13-143: the partial returned and the session after it
budget_review_agent(s, sess, suggestion) ==
  IF Get(s, "remaining_budget", 0) >= 0
  THEN [out |-> [is_budget_met |-> TRUE,
                 messages |-> List(<<"Budget review skipped">>),
                 next_action |-> "ITINERARY_PLANNER"],
        session |-> sess]
  ELSE IF review_key(s) \in DOMAIN sess.review
  THEN [out |-> sess.review[review_key(s)], session |-> sess]
  ELSE LET out == budget_review_compute(s, suggestion)
       IN [out |-> out,
           session |-> [sess EXCEPT !.review = Update(sess.review, [k \in {review_key(s)} |-> out])]]

\* itinerary_agent.py:8-25, 107-115, 188-198
itinerary_planner_agent(s, sess, is_llm) ==
  LET key == IntRupees(Get(s, "remaining_budget", 0))
  IN IF key \in sess.itinerary
     THEN [out |-> [itinerary_draft |-> "draft",
                    messages |-> List(<<"Itinerary served from cache.">>),
                    next_action |-> "FINISH"],
           session |-> sess]
     ELSE [out |-> [itinerary_draft |-> "draft",
                    messages |-> List(<<IF is_llm THEN "Itinerary draft completed (day-by-day)."
                                        ELSE "Itinerary (fallback) completed.">>),
                    next_action |-> "FINISH"],
           session |-> [sess EXCEPT !.itinerary = @ \cup {key}]]

(***************************************************************************)
(* Plans.  A task is a dict with keys among task_id, node, inputs,         *)
(* parallel, on_success, on_failure; inputs is modelled by its key set.    *)
(***************************************************************************)
Task(id, node, inputs, parallel, on_success, on_failure) ==
  [task_id |-> id, node |-> node, inputs |-> inputs, parallel |-> parallel,
   on_success |-> on_success, on_failure |-> on_failure]

\* planner_agent.py:11-20
FALLBACK_PLAN(now) ==
  [plan_id |-> <<"fallback", now>>,
   tasks |-> <<
     Task("t1", "FLIGHT_AGENT", {"city_iata", "start_date", "end_date", "budget"},
          FALSE, "t2", "BUDGET_REVIEW"),
     Task("t2", "ACCOMMODATION_AGENT",
          {"city_iata", "start_date", "end_date", "duration_days", "budget"},
          TRUE, "t3", "BUDGET_REVIEW"),
     Task("t3", "FOOD_AGENT", {"city", "duration_days", "budget"}, TRUE, "t4", "t4"),
     Task("t4", "ACTIVITIES_AGENT", {"city", "duration_days", "remaining_budget"},
          TRUE, "t5", "BUDGET_REVIEW"),
     Task("t5", "TOTAL_COST_CHECK", {}, FALSE, "ITINERARY_PLANNER", "BUDGET_REVIEW") >>]

(***************************************************************************)
(* What the generation capability (safe_invoke_planner, helpers.py:224-252)*)
(* hands back: kind "fail" is {"ok": False}, kind "raise" an exception out *)
(* of the call, kind "value" is {"ok": True, "plan": value}.  The parsed   *)
(* JSON value has a shape: "not_dict", "no_tasks" (a dict without          *)
(* "tasks"), "tasks_not_list", or "plan" (a dict with a list under tasks). *)
(***************************************************************************)
GenFail == [kind |-> "fail"]
GenRaise == [kind |-> "raise"]
GenValue(shape, p) == [kind |-> "value", shape |-> shape, plan |-> p]

\* planner_agent.py:49, replanner_agent.py:120-124
WellFormed(g) == g.kind = "value" /\ g.shape = "plan"

planner_agent_unlimited(is_llm, g, now) ==
  IF is_llm /\ WellFormed(g) THEN g.plan ELSE FALLBACK_PLAN(now)

\* planner_agent.py:9-60
planner_agent(is_llm, g, now) ==
  IF ~is_llm THEN FALLBACK_PLAN(now)
  ELSE IF g.kind = "raise" THEN FALLBACK_PLAN(now)
  ELSE IF g.kind = "fail" THEN FALLBACK_PLAN(now)
  ELSE IF g.shape # "plan" THEN FALLBACK_PLAN(now)
  ELSE IF Len(g.plan.tasks) > MAX_PLAN_TASKS THEN FALLBACK_PLAN(now)
  ELSE g.plan

(***************************************************************************)
(* Replanner, replanner_agent.py                                           *)
(***************************************************************************)
\* replanner_agent.py:28-32
wrap(ts, now) == [plan_id |-> <<"replan", now>>, tasks |-> ts]

\* replanner_agent.py:34-35: the first task with that id, 0 when there is none
find_task(ts, task_id) ==
  LET hits == {k \in 1..Len(ts) : Get(ts[k], "task_id", NoneStr) = task_id}
  IN IF hits = {} THEN 0 ELSE CHOOSE k \in hits : \A m \in hits : k <= m

\* replanner_agent.py:37-45
make_retry(task) ==
  [task_id |-> task.task_id \o "_retry",
   node |-> task.node,
   inputs |-> Get(task, "inputs", {}) \cup {"_retry_relax"},
   parallel |-> FALSE,
   on_success |-> task.on_success,
   on_failure |-> "BUDGET_REVIEW"]

\* replanner_agent.py:47-55
make_fallback(task, fallback_node) ==
  [task_id |-> task.task_id \o "_fallback",
   node |-> fallback_node,
   inputs |-> Get(task, "inputs", {}) \cup {"_from_fallback"},
   parallel |-> FALSE,
   on_success |-> task.on_success,
   on_failure |-> "BUDGET_REVIEW"]

\* task["task_id"], task["node"], task["on_success"] of make_retry / make_fallback
CanVariant(task) == Has(task, "task_id") /\ Has(task, "node") /\ Has(task, "on_success")

max_retries_of(manifest, node) ==
  Get(Get(Get(manifest, node, EmptyDict), "retry_strategy", EmptyDict), "max_retries", 0)

fallback_nodes_of(manifest, node) ==
  Get(Get(manifest, node, EmptyDict), "fallback_providers", <<>>)

\* a drop rule that also removes the tasks routed to the failing one
FilterOutRouted(ts, failing_id) ==
  SelectSeq(ts, LAMBDA t : /\ t.task_id # failing_id
                           /\ Get(t, "on_failure", NoneStr) # failing_id
                           /\ Get(t, "on_success", NoneStr) # failing_id)

RECURSIVE FilterOut(_, _)
\* [t for t in tasks if t["task_id"] != failing_id]
FilterOut(ts, failing_id) ==
  IF ts = <<>> THEN <<>>
  ELSE IF Head(ts).task_id # failing_id
       THEN <<Head(ts)>> \o FilterOut(Tail(ts), failing_id)
       ELSE FilterOut(Tail(ts), failing_id)

Returned(p) == [raised |-> FALSE, plan |-> p]
Raised == [raised |-> TRUE]

\* replanner_agent.py:59-84 (and its copy at 131-152): retry, else first
\* fallback provider, else drop; a missing key raises KeyError
deterministic_replan(failing_id, manifest, current_plan, now) ==
  LET ts == Get(current_plan, "tasks", <<>>)
      k == find_task(ts, failing_id)
  IN IF k = 0 THEN Returned(wrap(ts, now))
     ELSE IF ~Has(ts[k], "node") THEN Raised
     ELSE IF \E m \in 1..Len(ts) : ~Has(ts[m], "task_id") THEN Raised
     ELSE LET node == ts[k].node
              hit(m) == ts[m].task_id = failing_id
          IN IF max_retries_of(manifest, node) > 0
             THEN IF \E m \in 1..Len(ts) : hit(m) /\ ~CanVariant(ts[m]) THEN Raised
                  ELSE Returned(wrap([m \in 1..Len(ts) |->
                                       IF hit(m) THEN make_retry(ts[m]) ELSE ts[m]], now))
             ELSE IF fallback_nodes_of(manifest, node) # <<>>
             THEN IF \E m \in 1..Len(ts) : hit(m) /\ ~CanVariant(ts[m]) THEN Raised
                  ELSE Returned(wrap([m \in 1..Len(ts) |->
                                       IF hit(m)
                                       THEN make_fallback(ts[m], fallback_nodes_of(manifest, node)[1])
                                       ELSE ts[m]], now))
             ELSE Returned(wrap(FilterOut(ts, failing_id), now))

\* replanner_agent.py:9-152
replanner_agent(failing_id, manifest, current_plan, is_llm, g, now) ==
  IF ~is_llm THEN deterministic_replan(failing_id, manifest, current_plan, now)
  ELSE IF WellFormed(g) THEN Returned(g.plan)
  ELSE deterministic_replan(failing_id, manifest, current_plan, now)

(***************************************************************************)
(* One agent call.  An attempt ends "ok", "zero" (a cost agent that        *)
(* absorbed an API failure and reports cost 0), "degraded" (the budget     *)
(* review whose generation call failed or timed out), "raise" (an          *)
(* exception other than TypeError) or "TypeError".                         *)
(***************************************************************************)
TakesTaskInputs(node) == node \in CostNodes

BodyKinds(node, is_llm) ==
  IF node \in CostNodes THEN {"ok", "zero", "raise"}
  ELSE IF node = "BUDGET_REVIEW" /\ is_llm THEN {"ok", "degraded", "raise"}
  ELSE {"ok", "raise"}

Suggestion(kind, is_llm) ==
  IF ~is_llm THEN "(LLM Disabled)" ELSE IF kind = "ok" THEN "llm" ELSE "LLM failed/timed out"

\* the body of agent `node` run on state s, ending `kind` (not a raise)
Body(node, s, sess, kind, is_llm) ==
  CASE node \in CostNodes ->
         [out |-> cost_agent(node, s, IF kind = "zero" THEN 0 ELSE OkCost(node)), session |-> sess]
    [] node = "TOTAL_COST_CHECK" -> [out |-> total_cost_check(s), session |-> sess]
    [] node = "BUDGET_REVIEW" -> budget_review_agent(s, sess, Suggestion(kind, is_llm))
    [] node = "ITINERARY_PLANNER" -> itinerary_planner_agent(s, sess, is_llm)

\* main.py:131-134, 154-157, 276-279: agent_fn(state, task_inputs=...) and, on
\* TypeError, agent_fn(state).  An agent without a task_inputs parameter
\* raises TypeError before its body runs.
Attempts(node, is_llm) ==
  IF node \notin NODE_TO_FUNC THEN {<<"TypeError", "TypeError">>}
  ELSE IF TakesTaskInputs(node)
  THEN {<<k>> : k \in BodyKinds(node, is_llm)}
       \cup {<<"TypeError", k>> : k \in BodyKinds(node, is_llm)}
  ELSE {<<"TypeError", k>> : k \in BodyKinds(node, is_llm)}

\* how many times the body of the agent ran
BodyRuns(node, att) ==
  IF node \notin NODE_TO_FUNC THEN 0
  ELSE IF TakesTaskInputs(node) THEN Len(att) ELSE Len(att) - 1

\* non-nominal outcomes an attempt sequence draws from the model's budget
DrawsOf(node, att) ==
  IF node \notin NODE_TO_FUNC THEN 0
  ELSE Cardinality({k \in 1..Len(att) : att[k] # "ok"}) - (IF TakesTaskInputs(node) THEN 0 ELSE 1)

Last(seq) == seq[Len(seq)]
EndsRaised(att) == Last(att) \in {"raise", "TypeError"}

RECURSIVE Repeat(_, _)
Repeat(x, n) == IF n = 0 THEN <<>> ELSE <<x>> \o Repeat(x, n - 1)

Call(fn, via) == [fn |-> fn, via |-> via]

ErrorPartial(text, node) ==
  [messages |-> List(<<text \o node>>), trace |-> List(<<[node |-> node, error |-> "error"]>>)]

(***************************************************************************)
(* Inputs of a run                                                         *)
(***************************************************************************)
Budgets == {20000, 18000}

\* app.py:56-68: the state the application hands to create_and_run_planner
InitialState(budget) ==
  [budget |-> budget, messages |-> <<"Planning trip">>, remaining_budget |-> budget,
   flight_cost |-> 0, accommodation_cost |-> 0, food_cost |-> 0, activities_cost |-> 0,
   flight_details |-> "", accommodation_details |-> "", food_itinerary |-> "",
   activities_plan |-> "", itinerary_draft |-> "", is_budget_met |-> FALSE,
   next_action |-> "FLIGHT_AGENT"]

\* main.py:106-110
SetDefaults(s) ==
  Update([flight_cost |-> 0, accommodation_cost |-> 0, food_cost |-> 0, activities_cost |-> 0,
          remaining_budget |-> 0, messages |-> <<>>, trace |-> <<>>], s)

EmptySession == [review |-> EmptyDict, itinerary |-> {}]

\* A run earlier in the same Streamlit session ended over budget with these
\* costs; its budget review and its itinerary are in st.session_state.
PriorRunEnd(budget) ==
  recompute_remaining(
    Update(SetDefaults(InitialState(budget)),
           [flight_cost |-> 7000, accommodation_cost |-> 9000, food_cost |-> 2000,
            activities_cost |-> 1500]))

SessionAfter(s) ==
  LET br == budget_review_agent(s, EmptySession, "(LLM Disabled)")
      s2 == merge_partial_state(s, br.out)
  IN itinerary_planner_agent(s2, br.session, FALSE).session

\* the session a run starts in: a fresh one, or the one an earlier run with
\* the same budget left behind (the review's cache key holds the budget)
PriorBudget == 18000
InitialSessions(b) ==
  {EmptySession} \cup (IF b = PriorBudget THEN {SessionAfter(PriorRunEnd(b))} ELSE {})

\* plans the generation capability may answer with
GenPlanEmpty == [plan_id |-> <<"gen", 0>>, tasks |-> <<>>]
GenPlanCheckOnly ==
  [plan_id |-> <<"gen", 1>>,
   tasks |-> <<Task("c1", "TOTAL_COST_CHECK", {}, FALSE, "ITINERARY_PLANNER", "BUDGET_REVIEW")>>]
GenPlanDuplicateIds ==
  [plan_id |-> <<"gen", 2>>,
   tasks |-> <<Task("t1", "FLIGHT_AGENT", {}, FALSE, "t1", "BUDGET_REVIEW"),
               Task("t1", "FOOD_AGENT", {}, FALSE, "ITINERARY_PLANNER", "BUDGET_REVIEW")>>]
GenPlanOfLen(n) ==
  [plan_id |-> <<"gen", 3>>,
   tasks |-> [k \in 1..n |->
               Task("n" \o ToString(k), "TOTAL_COST_CHECK", {}, FALSE, "next", "BUDGET_REVIEW")]]
GenPlanNine == GenPlanOfLen(MAX_PLAN_TASKS + 1)
GenPlanEight == GenPlanOfLen(MAX_PLAN_TASKS)
GenPlanUnknown ==
  [plan_id |-> <<"gen", 4>>,
   tasks |-> <<Task("u1", "HOTEL_AGENT", {}, FALSE, "u2", "BUDGET_REVIEW"),
               Task("u2", "FOOD_AGENT", {}, TRUE, "u3", "BUDGET_REVIEW"),
               [node |-> "CAR_AGENT", parallel |-> TRUE]>>]
GenPlanBareTasks ==
  [plan_id |-> <<"gen", 5>>,
   tasks |-> <<[node |-> "FOOD_AGENT", parallel |-> FALSE],
               [task_id |-> "", node |-> "ACCOMMODATION_AGENT", parallel |-> FALSE]>>]

\* a plan that already holds the id a retry of its first task would get
GenPlanRetryNamed ==
  [plan_id |-> <<"gen", 6>>,
   tasks |-> <<Task("a", "FLIGHT_AGENT", {}, FALSE, "a_retry", "BUDGET_REVIEW"),
               Task("a_retry", "FOOD_AGENT", {}, FALSE, "ITINERARY_PLANNER", "BUDGET_REVIEW")>>]

\* two tasks of one parallel batch under the same task_id
GenPlanSharedId ==
  [plan_id |-> <<"gen", 7>>,
   tasks |-> <<Task("p1", "ACCOMMODATION_AGENT", {}, TRUE, "p1", "BUDGET_REVIEW"),
               Task("p1", "FOOD_AGENT", {}, TRUE, "ITINERARY_PLANNER", "BUDGET_REVIEW")>>]

GenPlans == {GenPlanEmpty, GenPlanCheckOnly, GenPlanDuplicateIds, GenPlanNine,
             GenPlanUnknown, GenPlanBareTasks, GenPlanSharedId}

Malformed == {GenValue("not_dict", GenPlanEmpty), GenValue("no_tasks", GenPlanEmpty),
              GenValue("tasks_not_list", GenPlanEmpty)}

GenResults == {GenFail, GenRaise} \cup Malformed \cup {GenValue("plan", p) : p \in GenPlans}

\* what the replanning generation may answer with during a run
ReplanGenPlans == {GenPlanNine, GenPlanDuplicateIds}

NoBatch == [tasks |-> <<>>, next_index |-> 0, pending |-> {}, results |-> <<>>]
NoFailure == [failing_task_id |-> NoneStr]
NoPlan == [plan_id |-> <<"none", 0>>, tasks |-> <<>>]
NoProbe == [fn |-> "none"]

Init ==
  /\ llm \in BOOLEAN
  /\ \E b \in Budgets :
       /\ state = InitialState(b)
       /\ session \in InitialSessions(b)
  /\ clock = 0          \* a run is taken to fall within one second of the clock
  /\ pc = "start"
  /\ plan = NoPlan
  /\ tasks = <<>>
  /\ i = 0
  /\ replan_count = 0
  /\ failure_context = NoFailure
  /\ batch = NoBatch
  /\ calls = <<>>
  /\ plan_ids = <<>>
  /\ draws = 0
  /\ probe = NoProbe

(***************************************************************************)
(* create_and_run_planner, main.py:51-341                                  *)
(***************************************************************************)
Draw(n) ==
  /\ draws + n <= MaxDraws
  /\ draws' = draws + n

Spend(node, att) == Draw(DrawsOf(node, att))

\* main.py:93-110: obtain the plan; an empty task list goes to the legacy graph
Planner ==
  /\ pc = "start"
  /\ \E g \in (IF llm THEN GenResults ELSE {GenFail}) :
       LET p == planner_agent(llm, g, clock)
           ts == Get(p, "tasks", <<>>)
       IN /\ plan' = p
          /\ tasks' = ts
          /\ plan_ids' = <<p.plan_id>>
          /\ IF ts = <<>>
             THEN pc' = "legacy" /\ state' = state
             ELSE pc' = "first" /\ state' = SetDefaults(state)
  /\ calls' = Append(calls, Call("planner_agent", "start"))
  /\ UNCHANGED <<llm, session, clock, i, replan_count, failure_context, batch, draws, probe>>

\* main.py:151-175: a FLIGHT_AGENT first task runs before the loop
FirstTask ==
  /\ pc = "first"
  /\ IF Get(tasks[1], "node", NoneStr) = "FLIGHT_AGENT"
     THEN \E att \in Attempts("FLIGHT_AGENT", llm) :
            /\ Spend("FLIGHT_AGENT", att)
            /\ calls' = calls \o Repeat(Call("FLIGHT_AGENT", "first"), BodyRuns("FLIGHT_AGENT", att))
            /\ IF Len(att) = 2 /\ EndsRaised(att)
               THEN \* raised inside the except TypeError clause: nothing catches it
                    /\ pc' = "raised"
                    /\ UNCHANGED <<state, i>>
               ELSE LET out == IF EndsRaised(att)
                               THEN ErrorPartial("Flight agent failed: ", "FLIGHT_AGENT")
                               ELSE Body("FLIGHT_AGENT", state, session, Last(att), llm).out
                    IN /\ state' = recompute_remaining(merge_partial_state(state, out))
                       /\ i' = 1
                       /\ pc' = "loop"
     ELSE /\ i' = 0
          /\ pc' = "loop"
          /\ UNCHANGED <<state, calls, draws>>
  /\ UNCHANGED <<llm, session, clock, plan, tasks, replan_count, failure_context, batch,
                 plan_ids, probe>>

IsParallel(t) == Get(t, "parallel", FALSE)

\* main.py:180-188: the Python index just past the batch that starts at index n
RECURSIVE ParallelEnd(_, _)
ParallelEnd(ts, j) ==
  IF j < Len(ts) /\ IsParallel(ts[j + 1]) THEN ParallelEnd(ts, j + 1) ELSE j

NextIndexAnyFirst(ts, n) == ParallelEnd(ts, n + 1)

NextIndex(ts, n) == IF IsParallel(ts[n + 1]) THEN ParallelEnd(ts, n + 1) ELSE n + 1

\* main.py:191-207: a batch of more than one task is submitted to the pool
SubmitBatch ==
  /\ pc = "loop"
  /\ i < Len(tasks)
  /\ NextIndex(tasks, i) - i > 1
  /\ batch' = [tasks |-> SubSeq(tasks, i + 1, NextIndex(tasks, i)),
               next_index |-> NextIndex(tasks, i),
               pending |-> 1..(NextIndex(tasks, i) - i),
               results |-> <<>>]
  /\ pc' = "batch"
  /\ UNCHANGED <<llm, session, clock, plan, tasks, state, i, replan_count, failure_context,
                 calls, plan_ids, draws, probe>>

NodeName(t) == Get(t, "node", NoneStr)

\* main.py:205 and 128: the id a worker reports
WorkerTaskId(t) ==
  LET given == Get(t, "task_id", NodeName(t))
  IN IF given = "" THEN NodeName(t) ELSE given

\* the pool runs at most min(MAX_WORKERS, len(batch)) workers at once, in
\* submission order: a task has started when fewer than that many pending
\* tasks were submitted before it
Started(k) == Cardinality({m \in batch.pending : m < k}) < MAX_WORKERS

\* a worker that completes before one submitted earlier draws from the
\* model's budget, like a fault: the runs checked reorder a bounded number
\* of completions
OutOfOrder(k) == IF \E m \in batch.pending : m < k THEN 1 ELSE 0

\* main.py:123-145 and 210-222: one worker completes and its result is collected
WorkerDone ==
  /\ pc = "batch"
  /\ \E k \in batch.pending :
       LET t == batch.tasks[k]
           node == NodeName(t)
       IN /\ Started(k)
          /\ \E att \in Attempts(node, llm) :
               /\ Draw(DrawsOf(node, att) + OutOfOrder(k))
               /\ calls' = calls \o Repeat(Call(node, "worker"), BodyRuns(node, att))
               /\ IF EndsRaised(att)
                  THEN /\ batch' = [batch EXCEPT
                            !.pending = @ \ {k},
                            !.results = Append(@, [task_id |-> WorkerTaskId(t), success |-> FALSE,
                                 out |-> ErrorPartial("Agent failed on attempt 1: ", node)])]
                       /\ session' = session
                  ELSE LET r == Body(node, state, session, Last(att), llm)
                       IN /\ batch' = [batch EXCEPT
                                 !.pending = @ \ {k},
                                 !.results = Append(@, [task_id |-> WorkerTaskId(t),
                                                        success |-> TRUE, out |-> r.out])]
                          /\ session' = r.session
  /\ UNCHANGED <<llm, clock, pc, plan, tasks, state, i, replan_count, failure_context,
                 plan_ids, probe>>

\* results[task_id] = (success, out): a dict keeps the place of a key's first
\* insertion and the value of its last
RECURSIVE DictItems(_)
DictItems(rs) ==
  IF rs = <<>> THEN <<>>
  ELSE LET init == SubSeq(rs, 1, Len(rs) - 1)
           r == Last(rs)
           before == DictItems(init)
       IN IF \E m \in 1..Len(before) : before[m].task_id = r.task_id
          THEN [m \in 1..Len(before) |-> IF before[m].task_id = r.task_id THEN r ELSE before[m]]
          ELSE Append(before, r)

RECURSIVE MergeAll(_, _)
MergeAll(s, items) ==
  IF items = <<>> THEN s
  ELSE MergeAll(merge_partial_state(s, Head(items).out), Tail(items))

RECURSIVE FailedIds(_)
FailedIds(rs) ==
  IF rs = <<>> THEN <<>>
  ELSE (IF Head(rs).success THEN <<>> ELSE <<Head(rs).task_id>>) \o FailedIds(Tail(rs))

\* main.py:224-261: past the pool, merge every collected result, recompute
\* the remaining budget, and call for a replan when a worker failed
MergeBatch ==
  /\ pc = "batch"
  /\ batch.pending = {}
  /\ state' = recompute_remaining(MergeAll(state, DictItems(batch.results)))
  /\ LET failures == FailedIds(batch.results)
     IN IF failures # <<>>
        THEN /\ failure_context' = [failing_task_id |-> failures[1], failed_tasks |-> failures]
             /\ pc' = "replan"
             /\ i' = i
        ELSE /\ failure_context' = failure_context
             /\ pc' = "loop"
             /\ i' = batch.next_index
  /\ batch' = NoBatch
  /\ UNCHANGED <<llm, session, clock, plan, tasks, replan_count, calls, plan_ids, draws, probe>>

\* main.py:297-307
is_failure(node, s) ==
  \/ node = "FLIGHT_AGENT" /\ s.flight_cost <= 0
  \/ node = "ACCOMMODATION_AGENT" /\ s.accommodation_cost <= 0
  \/ node = "FOOD_AGENT" /\ s.food_cost <= 0

\* main.py:263-324: a batch of one task runs in the main thread
SyncTask ==
  /\ pc = "loop"
  /\ i < Len(tasks)
  /\ NextIndex(tasks, i) - i = 1
  /\ LET task == tasks[i + 1]
         node == NodeName(task)
         task_id == Get(task, "task_id", "t" \o ToString(i + 1))
     IN IF node \notin NODE_TO_FUNC
        THEN /\ i' = NextIndex(tasks, i)
             /\ UNCHANGED <<state, session, pc, failure_context, calls, draws>>
        ELSE \E att \in Attempts(node, llm) :
               /\ Spend(node, att)
               /\ calls' = calls \o Repeat(Call(node, "sync"), BodyRuns(node, att))
               /\ LET r == IF EndsRaised(att)
                           THEN [out |-> ErrorPartial("Agent failed: ", node), session |-> session]
                           ELSE Body(node, state, session, Last(att), llm)
                      s1 == recompute_remaining(merge_partial_state(state, r.out))
                  IN /\ state' = s1
                     /\ session' = r.session
                     /\ IF is_failure(node, s1)
                        THEN /\ failure_context' = [failing_task_id |-> task_id, node |-> node]
                             /\ pc' = "replan"
                             /\ i' = i
                        ELSE /\ failure_context' = failure_context
                             /\ pc' = "loop"
                             /\ i' = NextIndex(tasks, i)
  /\ UNCHANGED <<llm, clock, plan, tasks, replan_count, batch, plan_ids, probe>>

\* what the replanning generation answers; a plan of its own draws from the
\* model's budget
ReplanGenResults ==
  IF ~llm THEN {GenFail}
  ELSE {GenFail, GenRaise} \cup Malformed \cup {GenValue("plan", p) : p \in ReplanGenPlans}

GenDraws(g) == IF WellFormed(g) THEN 1 ELSE 0

ExhaustedLate(n) == n > MAX_REPLANS + 1

\* main.py:249 and 314: if replan_count > MAX_REPLANS
Exhausted(n) == n > MAX_REPLANS

RestartAfterFailure(failed_at) == failed_at + 1

\* main.py:256 and 320: i = 0
RestartIndex(failed_at) == 0

\* main.py:240-257 and 309-321: replan, count it, stop past MAX_REPLANS,
\* otherwise restart the new plan from its first task
Replan ==
  /\ pc = "replan"
  /\ \E g \in ReplanGenResults :
       /\ Draw(GenDraws(g))
       /\ LET r == replanner_agent(failure_context.failing_task_id, CAPABILITY_MANIFEST,
                                   plan, llm, g, clock)
          IN IF r.raised
             THEN /\ pc' = "raised"
                  /\ UNCHANGED <<plan, tasks, replan_count, i, plan_ids>>
             ELSE /\ plan' = r.plan
                  /\ tasks' = Get(r.plan, "tasks", <<>>)
                  /\ plan_ids' = Append(plan_ids, r.plan.plan_id)
                  /\ replan_count' = replan_count + 1
                  /\ IF Exhausted(replan_count + 1)
                     THEN pc' = "exhaust_review" /\ i' = i
                     ELSE pc' = "loop" /\ i' = RestartIndex(i)
  /\ calls' = Append(calls, Call("replanner_agent", "replan"))
  /\ failure_context' = NoFailure
  /\ UNCHANGED <<llm, session, clock, state, batch, probe>>

\* an agent called directly, as agent(state)
DirectDraws(kind) == IF kind = "ok" THEN 0 ELSE 1

\* main.py:252 and 317: the budget review on the exhaustion path, unguarded
ExhaustReview ==
  /\ pc = "exhaust_review"
  /\ \E kind \in BodyKinds("BUDGET_REVIEW", llm) :
       /\ draws + DirectDraws(kind) <= MaxDraws
       /\ draws' = draws + DirectDraws(kind)
       /\ IF kind = "raise"
          THEN pc' = "raised" /\ UNCHANGED <<state, session>>
          ELSE LET r == Body("BUDGET_REVIEW", state, session, kind, llm)
               IN /\ state' = merge_partial_state(state, r.out)
                  /\ session' = r.session
                  /\ pc' = "exhaust_itinerary"
  /\ calls' = Append(calls, Call("BUDGET_REVIEW", "exhaust"))
  /\ UNCHANGED <<llm, clock, plan, tasks, i, replan_count, failure_context, batch,
                 plan_ids, probe>>

\* main.py:253-254 and 318-319: the itinerary on the exhaustion path, then return
ExhaustItinerary ==
  /\ pc = "exhaust_itinerary"
  /\ \E kind \in BodyKinds("ITINERARY_PLANNER", llm) :
       /\ draws + DirectDraws(kind) <= MaxDraws
       /\ draws' = draws + DirectDraws(kind)
       /\ IF kind = "raise"
          THEN pc' = "raised" /\ UNCHANGED <<state, session>>
          ELSE LET r == Body("ITINERARY_PLANNER", state, session, kind, llm)
               IN /\ state' = merge_partial_state(state, r.out)
                  /\ session' = r.session
                  /\ pc' = "returned"
  /\ calls' = Append(calls, Call("ITINERARY_PLANNER", "exhaust"))
  /\ UNCHANGED <<llm, clock, plan, tasks, i, replan_count, failure_context, batch,
                 plan_ids, probe>>

NeedsReviewAtZero(s) == Get(s, "remaining_budget", 0) <= 0

\* main.py:328: if float(state.get("remaining_budget", 0.0)) < 0
NeedsReview(s) == Get(s, "remaining_budget", 0) < 0

\* main.py:326-332: past the last task, review the budget when it is negative
FinalReview ==
  /\ pc = "loop"
  /\ i >= Len(tasks)
  /\ IF NeedsReview(state)
     THEN \E kind \in BodyKinds("BUDGET_REVIEW", llm) :
            /\ draws + DirectDraws(kind) <= MaxDraws
            /\ draws' = draws + DirectDraws(kind)
            /\ calls' = Append(calls, Call("BUDGET_REVIEW", "final"))
            /\ IF kind = "raise"
               THEN UNCHANGED <<state, session>>
               ELSE LET r == Body("BUDGET_REVIEW", state, session, kind, llm)
                    IN /\ state' = merge_partial_state(state, r.out)
                       /\ session' = r.session
     ELSE UNCHANGED <<state, session, draws, calls>>
  /\ pc' = "final_itinerary"
  /\ UNCHANGED <<llm, clock, plan, tasks, i, replan_count, failure_context, batch,
                 plan_ids, probe>>

\* main.py:334-341: the final itinerary, then return
FinalItinerary ==
  /\ pc = "final_itinerary"
  /\ \E kind \in BodyKinds("ITINERARY_PLANNER", llm) :
       /\ draws + DirectDraws(kind) <= MaxDraws
       /\ draws' = draws + DirectDraws(kind)
       /\ IF kind = "raise"
          THEN UNCHANGED <<state, session>>
          ELSE LET r == Body("ITINERARY_PLANNER", state, session, kind, llm)
               IN /\ state' = merge_partial_state(state, r.out)
                  /\ session' = r.session
  /\ calls' = Append(calls, Call("ITINERARY_PLANNER", "final"))
  /\ pc' = "returned"
  /\ UNCHANGED <<llm, clock, plan, tasks, i, replan_count, failure_context, batch,
                 plan_ids, probe>>

(***************************************************************************)
(* _run_legacy_graph, main.py:30-49: the fixed LangGraph chain.  A node's  *)
(* return value overwrites the state's keys that PlannerState declares     *)
(* (planner_state.py:4-25, no reducer: "messages" is overwritten too) and  *)
(* keys PlannerState does not declare are dropped; an exception in a node  *)
(* leaves app.invoke.                                                      *)
(***************************************************************************)
PlannerStateKeys ==
  {"city", "city_iata", "start_date", "end_date", "budget", "duration_days", "messages",
   "remaining_budget", "flight_cost", "accommodation_cost", "food_cost", "activities_cost",
   "flight_details", "accommodation_details", "food_itinerary", "activities_plan",
   "itinerary_draft", "itinerary_extras", "is_budget_met", "next_action"}

legacy_update(s, partial) ==
  [k \in DOMAIN s \cup (DOMAIN partial \cap PlannerStateKeys) |->
     IF k \in DOMAIN partial \cap PlannerStateKeys
     THEN IF k = "messages" THEN partial[k].items ELSE partial[k]
     ELSE s[k]]

\* main.py:24-28
route_after_costing(s) ==
  IF Get(s, "remaining_budget", 0) < 0 THEN "BUDGET_REVIEW" ELSE "ITINERARY_PLANNER"

\* main.py:39-46: the node after `node`, "END" after the itinerary
LegacyNext(node, s) ==
  CASE node = "FLIGHT_AGENT" -> "ACCOMMODATION_AGENT"
    [] node = "ACCOMMODATION_AGENT" -> "FOOD_AGENT"
    [] node = "FOOD_AGENT" -> "ACTIVITIES_AGENT"
    [] node = "ACTIVITIES_AGENT" -> "TOTAL_COST_CHECK"
    [] node = "TOTAL_COST_CHECK" -> route_after_costing(s)
    [] node = "BUDGET_REVIEW" -> "ITINERARY_PLANNER"
    [] node = "ITINERARY_PLANNER" -> "END"

\* the graph's position is kept in failure_context.node while pc = "legacy"
LegacyNode == Get(failure_context, "node", "FLIGHT_AGENT")

LegacyStep ==
  /\ pc = "legacy"
  /\ \E kind \in BodyKinds(LegacyNode, llm) :
       /\ draws + DirectDraws(kind) <= MaxDraws
       /\ draws' = draws + DirectDraws(kind)
       /\ IF kind = "raise"
          THEN pc' = "raised" /\ UNCHANGED <<state, session, failure_context>>
          ELSE LET r == Body(LegacyNode, state, session, kind, llm)
                   s1 == legacy_update(state, r.out)
               IN /\ state' = s1
                  /\ session' = r.session
                  /\ IF LegacyNext(LegacyNode, s1) = "END"
                     THEN pc' = "returned" /\ failure_context' = NoFailure
                     ELSE pc' = "legacy"
                          /\ failure_context' = [failing_task_id |-> NoneStr,
                                                 node |-> LegacyNext(LegacyNode, s1)]
  /\ calls' = Append(calls, Call(LegacyNode, "legacy"))
  /\ UNCHANGED <<llm, clock, plan, tasks, i, replan_count, batch, plan_ids, probe>>

Next ==
  \/ Planner
  \/ FirstTask
  \/ SubmitBatch
  \/ WorkerDone
  \/ MergeBatch
  \/ SyncTask
  \/ Replan
  \/ ExhaustReview
  \/ ExhaustItinerary
  \/ FinalReview
  \/ FinalItinerary
  \/ LegacyStep

Spec == Init /\ [][Next]_vars

Terminated == pc \in {"returned", "raised"}

(***************************************************************************)
(* The pure functions on their own: merge_partial_state, planner_agent and *)
(* replanner_agent are applied once to an input drawn in the initial       *)
(* state; `probe` holds the input and then the output.                     *)
(***************************************************************************)
ProbeLogs(entries) == UNION {[1..n -> entries] : n \in 0..MaxProbeLog}

ProbeMessages == {"m1", "m2"}
ProbeTraces == {[node |-> "A"], [node |-> "B"]}

ProbeMainStates ==
  {Update(Update([next_action |-> "A"], mm), tt) :
     mm \in {EmptyDict} \cup {[messages |-> l] : l \in ProbeLogs(ProbeMessages)},
     tt \in {EmptyDict} \cup {[trace |-> l] : l \in ProbeLogs(ProbeTraces)}}

\* what a partial carries under a log key: nothing, a list, one non-list value
ProbePartialLogs(key, e1, e2) ==
  {EmptyDict} \cup {[k \in {key} |-> v] : v \in {List(<<>>), List(<<e1>>), List(<<e2, e1>>), Scalar(e2)}}

ProbePartials ==
  {NonDict} \cup
  {Update(Update([next_action |-> "B"], mm), tt) :
     mm \in ProbePartialLogs("messages", "m1", "m3"),
     tt \in ProbePartialLogs("trace", [node |-> "A"], [node |-> "C"])}

MergeInputs ==
  {[fn |-> "merge_partial_state", main_state |-> ms, partial |-> pa, applied |-> FALSE] :
     ms \in ProbeMainStates, pa \in ProbePartials}

PlannerInputs ==
  {[fn |-> "planner_agent", is_llm |-> l, g |-> g, now |-> 0, applied |-> FALSE] :
     l \in BOOLEAN,
     g \in GenResults \cup {GenValue("plan", GenPlanEight), GenValue("plan", GenPlanRetryNamed)}}

\* manifests whose cost nodes declare a retry strategy and fallback providers
Recovery(retry, providers) ==
  [n \in NODE_TO_FUNC |->
     IF n \in CostNodes THEN Update(Update(CAPABILITY_MANIFEST[n], retry), providers)
     ELSE CAPABILITY_MANIFEST[n]]

ProbeManifests ==
  {Recovery(r, f) :
     r \in {EmptyDict, [retry_strategy |-> EmptyDict], [retry_strategy |-> [max_retries |-> 0]],
            [retry_strategy |-> [max_retries |-> 2]]},
     f \in {EmptyDict, [fallback_providers |-> <<>>],
            [fallback_providers |-> <<"ACTIVITIES_AGENT", "FOOD_AGENT">>]}}

\* the fallback plan after its task t3 failed once under a manifest that
\* allows retries: t3 is replaced by its retry variant
ProbePlanRetried ==
  deterministic_replan("t3", Recovery([retry_strategy |-> [max_retries |-> 2]], EmptyDict),
                       FALLBACK_PLAN(0), 0).plan

ProbePlans == {FALLBACK_PLAN(0), GenPlanDuplicateIds, GenPlanRetryNamed, GenPlanUnknown,
               GenPlanBareTasks, GenPlanEmpty, ProbePlanRetried}

TaskIds(p) == {Get(p.tasks[k], "task_id", NoneStr) : k \in 1..Len(p.tasks)}

ReplannerInputs ==
  {[fn |-> "replanner_agent", failing_id |-> f, manifest |-> m, current_plan |-> cp,
    is_llm |-> l, g |-> g, now |-> 0, applied |-> FALSE] :
     f \in UNION {TaskIds(pl) : pl \in ProbePlans} \cup {"missing"},
     m \in ProbeManifests, cp \in ProbePlans, l \in BOOLEAN,
     g \in {GenFail, GenRaise, GenValue("no_tasks", GenPlanEmpty), GenValue("plan", GenPlanNine)}}

\* states handed to budget_review_agent: a budget, the four costs, and the
\* remaining budget the orchestrator recomputed from them
ProbeCosts == {0, 2000, 5005}
ProbeBudget == 6000

ReviewInputs ==
  {[fn |-> "budget_review_agent",
    s |-> recompute_remaining(
            Update(InitialState(ProbeBudget),
                   [flight_cost |-> f, accommodation_cost |-> a, food_cost |-> fo,
                    activities_cost |-> v])),
    sess |-> EmptySession, suggestion |-> "(LLM Disabled)", applied |-> FALSE] :
     f \in ProbeCosts, a \in ProbeCosts, fo \in ProbeCosts, v \in ProbeCosts}

ProbeInit ==
  /\ llm = FALSE
  /\ session = EmptySession
  /\ clock = 0
  /\ pc = "probe"
  /\ plan = NoPlan
  /\ tasks = <<>>
  /\ state = InitialState(PriorBudget)
  /\ i = 0
  /\ replan_count = 0
  /\ failure_context = NoFailure
  /\ batch = NoBatch
  /\ calls = <<>>
  /\ plan_ids = <<>>
  /\ draws = 0
  /\ probe \in MergeInputs \cup PlannerInputs \cup ReplannerInputs \cup ReviewInputs

Apply(out) ==
  /\ probe' = Update(probe, [applied |-> TRUE, out |-> out])
  /\ UNCHANGED <<llm, session, clock, pc, plan, tasks, state, i, replan_count,
                 failure_context, batch, calls, plan_ids, draws>>

MergeProbe ==
  /\ pc = "probe" /\ probe.fn = "merge_partial_state" /\ ~probe.applied
  /\ Apply(merge_partial_state(probe.main_state, probe.partial))

PlannerProbe ==
  /\ pc = "probe" /\ probe.fn = "planner_agent" /\ ~probe.applied
  /\ Apply(planner_agent(probe.is_llm, probe.g, probe.now))

ReplannerProbe ==
  /\ pc = "probe" /\ probe.fn = "replanner_agent" /\ ~probe.applied
  /\ Apply(replanner_agent(probe.failing_id, probe.manifest, probe.current_plan,
                           probe.is_llm, probe.g, probe.now))

ReviewProbe ==
  /\ pc = "probe" /\ probe.fn = "budget_review_agent" /\ ~probe.applied
  /\ Apply(budget_review_agent(probe.s, probe.sess, probe.suggestion).out)

ProbeNext == MergeProbe \/ PlannerProbe \/ ReplannerProbe \/ ReviewProbe

ProbeSpec == ProbeInit /\ [][ProbeNext]_vars

Applied(fn) == pc = "probe" /\ probe.fn = fn /\ probe.applied

(***************************************************************************)
(* Properties                                                              *)
(***************************************************************************)
CallsOf(fn) == Cardinality({k \in 1..Len(calls) : calls[k].fn = fn})

\* lexicographic order on tuples of four integers
LexLess(a, b) ==
  \E k \in 1..4 : a[k] < b[k] /\ \A m \in 1..(k - 1) : a[m] = b[m]

\* nodes of the legacy chain still to run, the current one included
LegacyLeft(node) ==
  CASE node = "FLIGHT_AGENT" -> 7
    [] node = "ACCOMMODATION_AGENT" -> 6
    [] node = "FOOD_AGENT" -> 5
    [] node = "ACTIVITIES_AGENT" -> 4
    [] node = "TOTAL_COST_CHECK" -> 3
    [] node = "BUDGET_REVIEW" -> 2
    [] node = "ITINERARY_PLANNER" -> 1

\* what is left of a run: replans before exhaustion, then the stage of the
\* function body, then the tasks of the pass, then the workers of the batch
Variant ==
  LET left == MAX_REPLANS + 1 - replan_count
  IN CASE pc = "start" -> <<left, 6, 0, 0>>
       [] pc = "first" -> <<left, 5, 0, 0>>
       [] pc = "legacy" -> <<left, 4, LegacyLeft(LegacyNode), 0>>
       [] pc = "loop" -> <<left, 3, Len(tasks) - i, Len(tasks) + 1>>
       [] pc = "batch" -> <<left, 3, Len(tasks) - i, Cardinality(batch.pending)>>
       [] pc \in {"replan", "exhaust_review"} -> <<left, 2, 0, 0>>
       [] pc \in {"exhaust_itinerary", "final_itinerary"} -> <<left, 1, 0, 0>>
       [] OTHER -> <<left, 0, 0, 0>>

\* C1: every run ends (returns or raises), and no run invokes the replanner
\* more than MAX_REPLANS + 1 = 4 times.  No run goes on for ever: every step
\* decreases Variant, which is bounded below because replan_count never
\* exceeds MAX_REPLANS + 1.
C1_Terminates ==
  /\ [](CallsOf("replanner_agent") <= MAX_REPLANS + 1 /\ replan_count <= MAX_REPLANS + 1)
  /\ [][LexLess(Variant', Variant)]_vars

\* a run that returned after four replans
C1_Witness == pc = "returned" /\ CallsOf("replanner_agent") = MAX_REPLANS + 1

\* C2: create_and_run_planner never lets an exception escape, whichever
\* agent call raises: no run ends with pc = "raised".
C2_NeverRaises == pc # "raised"

CostSum(s) ==
  Get(s, "flight_cost", 0) + Get(s, "accommodation_cost", 0) + Get(s, "food_cost", 0)
  + Get(s, "activities_cost", 0)

\* C3: at every point of a run past a merge, and in the returned RunState,
\* remaining_budget = budget - (flight + accommodation + food + activities
\* cost), also when the budget review answered from its session cache.
C3_RemainingIsBudgetMinusCosts ==
  pc \in {"loop", "replan", "exhaust_itinerary", "final_itinerary", "returned"}
    => state.remaining_budget = state.budget - CostSum(state)

LogBefore(key) == Get(probe.main_state, key, <<>>)
LogAfter(key) == Get(probe.out, key, <<>>)

\* C4: a merge only appends to the messages log and to the trace log: each
\* log before the merge is a prefix of the log after it, whether the partial
\* carries a list, one non-list value, or no such key (or is no dict).
C4_LogsOnlyAppend ==
  Applied("merge_partial_state")
    => /\ IsPrefix(LogBefore("messages"), LogAfter("messages"))
       /\ IsPrefix(LogBefore("trace"), LogAfter("trace"))

\* a non-empty messages log merged with a single non-list message, and a
\* non-empty trace merged with a list
C4_Witness ==
  /\ Applied("merge_partial_state")
  /\ Len(LogBefore("messages")) = MaxProbeLog
  /\ IsDict(probe.partial)
  /\ Has(probe.partial, "messages") /\ ~probe.partial.messages.list
  /\ Has(probe.partial, "trace") /\ probe.partial.trace.list
  /\ Len(LogAfter("messages")) = MaxProbeLog + 1
  /\ Len(LogAfter("trace")) > Len(LogBefore("trace"))
  /\ LogBefore("trace") # <<>>

\* C5: the RunState a run returns has a non-empty trace, for every plan and
\* every sequence of task outcomes.
C5_TraceNonEmpty == pc = "returned" => Get(state, "trace", <<>>) # <<>>

\* a plan the specification calls valid: at most 8 tasks, every task with a
\* non-empty task_id and node, task_ids pairwise distinct
ValidPlan(p) ==
  LET ts == Get(p, "tasks", <<>>)
  IN /\ Len(ts) <= MAX_PLAN_TASKS
     /\ \A k \in 1..Len(ts) :
          /\ Get(ts[k], "task_id", "") # ""
          /\ Get(ts[k], "node", "") # ""
     /\ \A k, m \in 1..Len(ts) : k # m => Get(ts[k], "task_id", "") # Get(ts[m], "task_id", "")

\* a step that runs a task of the current plan
RunsTask ==
  /\ \/ pc = "first" /\ NodeName(tasks[1]) = "FLIGHT_AGENT"
     \/ pc = "loop" /\ i < Len(tasks)
     \/ pc = "batch"
  /\ Len(calls') > Len(calls)

\* C6: the orchestrator runs tasks of valid plans only, whether the plan came
\* from the initial planner or from the replanner.
C6_OnlyValidPlansRun == [][RunsTask => ValidPlan(plan)]_vars

\* the deterministic fallback plan as the specification describes it
IsFallbackPlan(p) ==
  /\ [k \in 1..Len(p.tasks) |-> p.tasks[k].node]
       = <<"FLIGHT_AGENT", "ACCOMMODATION_AGENT", "FOOD_AGENT", "ACTIVITIES_AGENT",
           "TOTAL_COST_CHECK">>
  /\ [k \in 1..Len(p.tasks) |-> p.tasks[k].parallel] = <<FALSE, TRUE, TRUE, TRUE, FALSE>>

\* C7: planner_agent never returns more than 8 tasks: a well-formed generated
\* plan of at most 8 tasks is returned unchanged, and every other outcome of
\* the generation (more than 8 tasks, a value that is no mapping with a list
\* under "tasks", a failed call, an exception) yields the 5-task fallback.
C7_PlannerAtMostEight ==
  Applied("planner_agent")
    => /\ Len(probe.out.tasks) <= 8
       /\ IF probe.is_llm /\ WellFormed(probe.g) /\ Len(probe.g.plan.tasks) <= 8
          THEN probe.out = probe.g.plan
          ELSE IsFallbackPlan(probe.out)

\* the generation answered a well-formed plan of 9 tasks and the planner
\* returned the fallback
C7_Witness ==
  /\ Applied("planner_agent")
  /\ probe.is_llm
  /\ WellFormed(probe.g) /\ Len(probe.g.plan.tasks) = 9
  /\ IsFallbackPlan(probe.out)

\* the replanner probe took the deterministic path and returned a plan for a
\* failing task that is in the current plan
ReplannedDeterministically ==
  /\ Applied("replanner_agent")
  /\ ~probe.is_llm \/ ~WellFormed(probe.g)
  /\ find_task(probe.current_plan.tasks, probe.failing_id) # 0
  /\ ~probe.out.raised

FailingPos == find_task(probe.current_plan.tasks, probe.failing_id)
FailingNode == probe.current_plan.tasks[FailingPos].node
TasksBefore == probe.current_plan.tasks
TasksAfter == probe.out.plan.tasks

IdsAt(ts, id) == {k \in 1..Len(ts) : Get(ts[k], "task_id", NoneStr) = id}

OthersUnchanged ==
  /\ Len(TasksAfter) = Len(TasksBefore)
  /\ \A k \in 1..Len(TasksBefore) : k # FailingPos => TasksAfter[k] = TasksBefore[k]

RetryApplies == max_retries_of(probe.manifest, FailingNode) > 0

\* C8: retry rule.  When the manifest gives the failing task's node
\* max_retries > 0, the returned plan has exactly one task with the id
\* failing_id + "_retry", at the failing task's position and with its node,
\* has no task with the failing id, and every other task is unchanged.
C8_RetryRule ==
  ReplannedDeterministically /\ RetryApplies
    => /\ OthersUnchanged
       /\ IdsAt(TasksAfter, probe.failing_id \o "_retry") = {FailingPos}
       /\ TasksAfter[FailingPos].node = FailingNode
       /\ IdsAt(TasksAfter, probe.failing_id) = {}

FallbackApplies == ~RetryApplies /\ fallback_nodes_of(probe.manifest, FailingNode) # <<>>

\* C9: fallback rule.  When the failing task's node has no retries and a
\* non-empty fallback_providers list, the task at the failing task's position
\* has the first listed provider as node and on_failure BUDGET_REVIEW, it is
\* no retry task, and every other task is unchanged.
C9_FallbackRule ==
  ReplannedDeterministically /\ FallbackApplies
    => /\ OthersUnchanged
       /\ TasksAfter[FailingPos].node = fallback_nodes_of(probe.manifest, FailingNode)[1]
       /\ TasksAfter[FailingPos].on_failure = "BUDGET_REVIEW"
       /\ TasksAfter[FailingPos].task_id # probe.failing_id \o "_retry"

DropApplies == ~RetryApplies /\ fallback_nodes_of(probe.manifest, FailingNode) = <<>>

\* ts without its k-th element
Without(ts, k) == SubSeq(ts, 1, k - 1) \o SubSeq(ts, k + 1, Len(ts))

\* C10: drop rule.  When the failing task's node has neither retries nor
\* fallback providers, the returned task list is the current one with exactly
\* the failing task removed.
C10_DropRule ==
  ReplannedDeterministically /\ DropApplies
    => TasksAfter = Without(TasksBefore, FailingPos)

\* the agents invoked since the last call of the replanner
LastReplanCall ==
  LET hits == {k \in 1..Len(calls) : calls[k].fn = "replanner_agent"}
  IN IF hits = {} THEN 0 ELSE CHOOSE k \in hits : \A m \in hits : m <= k

CallsSinceReplan == [k \in 1..(Len(calls) - LastReplanCall) |-> calls[LastReplanCall + k].fn]

\* C11: once replan_count exceeds MAX_REPLANS no plan task runs and no plan
\* is adopted any more; the budget review is invoked exactly once, then the
\* itinerary step exactly once, and the run returns.
C11_ExhaustionRunsReviewThenItinerary ==
  replan_count > MAX_REPLANS
    => /\ Len(plan_ids) = replan_count + 1
       /\ \/ pc = "exhaust_review" /\ CallsSinceReplan = <<>>
          \/ pc = "exhaust_itinerary" /\ CallsSinceReplan = <<"BUDGET_REVIEW">>
          \/ pc = "returned" /\ CallsSinceReplan = <<"BUDGET_REVIEW", "ITINERARY_PLANNER">>

\* the trace entries the code writes are a cost agent's entry (with "cost")
\* and the entry of an agent that raised (with "error"); an entry marking the
\* exhaustion of replans would be neither
MarksExhaustion(entry) == ~Has(entry, "cost") /\ ~Has(entry, "error")

ReturnedByExhaustion == pc = "returned" /\ replan_count > MAX_REPLANS

\* C12: the trace of a RunState returned after replan exhaustion holds an
\* entry marking the exhaustion.
C12_ExhaustionIsTraced ==
  ReturnedByExhaustion
    => \E k \in 1..Len(state.trace) : MarksExhaustion(state.trace[k])

AtPlanEnd == pc = "loop" /\ i >= Len(tasks)

\* C13: at the end of the plan the budget review is invoked if and only if
\* remaining_budget is negative at that moment, then the itinerary step is
\* invoked exactly once, and the state is returned right after it; nothing
\* runs after the return.
C13_NormalTermination ==
  /\ [][AtPlanEnd => /\ pc' = "final_itinerary"
                     /\ calls' = IF state.remaining_budget < 0
                                 THEN Append(calls, Call("BUDGET_REVIEW", "final"))
                                 ELSE calls]_vars
  /\ [][pc = "final_itinerary"
          => /\ pc' = "returned"
             /\ calls' = Append(calls, Call("ITINERARY_PLANNER", "final"))]_vars
  /\ [][pc # "returned"]_vars

\* a run that ended its plan over budget, was reviewed, and returned
C13_Witness ==
  /\ pc = "returned"
  /\ replan_count <= MAX_REPLANS
  /\ Len(calls) >= 2
  /\ calls[Len(calls)] = Call("ITINERARY_PLANNER", "final")
  /\ calls[Len(calls) - 1] = Call("BUDGET_REVIEW", "final")

\* the run returned from the end of its plan and no budget review was forced
ReturnedWithinBudget ==
  /\ pc = "returned"
  /\ calls[Len(calls)] = Call("ITINERARY_PLANNER", "final")
  /\ calls[Len(calls) - 1] # Call("BUDGET_REVIEW", "final")

\* C14: a run that reaches the end of its plan with remaining_budget >= 0
\* returns a RunState whose is_budget_met is true.
C14_WithinBudgetIsMet == ReturnedWithinBudget => state.is_budget_met

CostKeys == {"flight_cost", "accommodation_cost", "food_cost", "activities_cost"}

\* the state after the review's partial is merged
Reviewed == merge_partial_state(probe.s, probe.out)

ReviewedOverBudget == Applied("budget_review_agent") /\ probe.s.remaining_budget < 0

\* C15: on an over-budget state the budget review reduces by 20% the largest
\* of the four cost categories, leaves the other three unchanged, and reports
\* a remaining budget not below the one before the review.
C15_ReviewCutsLargestOfFour ==
  ReviewedOverBudget
    => /\ \E key \in CostKeys :
            /\ \A other \in CostKeys : probe.s[other] <= probe.s[key]
            /\ Reviewed[key] = probe.s[key] - RoundHalfEven(probe.s[key] * 20, 100)
            /\ \A other \in CostKeys \ {key} : Reviewed[other] = probe.s[other]
       /\ probe.out.remaining_budget >= probe.s.remaining_budget

TraceOf(s) == Get(s, "trace", <<>>)

\* the step is a synchronous task whose agent call raised: the loop merged
\* the error partial, which adds one trace entry carrying the error
SyncRaised ==
  /\ pc = "loop" /\ i < Len(tasks)
  /\ Len(TraceOf(state')) = Len(TraceOf(state)) + 1
  /\ Has(Last(TraceOf(state')), "error")

\* C16: a synchronously executed task whose agent call raises is treated as
\* failed, for every node and whatever costs the state holds: the replanner
\* is the next thing invoked.
C16_SyncRaiseIsFailure == [][SyncRaised => pc' = "replan"]_vars

ZeroAfter(node) == node \in CostNodes /\ state'[CostKey(node)] <= 0

\* the step finishes the execution of a cost-node task (the first FLIGHT
\* task, a synchronous task, or a member of the batch being merged) whose
\* headline cost is <= 0 afterwards
ExecutedAtZero ==
  \/ /\ pc = "first" /\ pc' = "loop" /\ i' = 1
     /\ ZeroAfter("FLIGHT_AGENT")
  \/ /\ pc = "loop" /\ i < Len(tasks) /\ pc' \in {"loop", "replan"}
     /\ ZeroAfter(NodeName(tasks[i + 1]))
  \/ /\ pc = "batch" /\ pc' \in {"loop", "replan"}
     /\ \E k \in 1..Len(batch.tasks) : ZeroAfter(NodeName(batch.tasks[k]))

\* C17: every executed cost-node task whose headline cost is <= 0 is treated
\* as failed and causes the replanner to be invoked, whether it ran as the
\* first FLIGHT task, as a single synchronous task or as a batch member.
C17_ZeroCostIsFailure == [][ExecutedAtZero => pc' = "replan"]_vars

Registered(t) == NodeName(t) \in NODE_TO_FUNC

\* the step disposes of a task whose node is not registered: alone in the
\* loop, or as a member of the batch being merged
UnregisteredAlone == pc = "loop" /\ i < Len(tasks) /\ NextIndex(tasks, i) - i = 1
                     /\ ~Registered(tasks[i + 1])

UnregisteredInBatch == pc = "batch" /\ batch.pending = {}
                       /\ \E k \in 1..Len(batch.tasks) : ~Registered(batch.tasks[k])
                       /\ \A n \in 1..Len(batch.tasks) :
                            Registered(batch.tasks[n]) =>
                              \E m \in 1..Len(batch.results) :
                                /\ batch.results[m].task_id = WorkerTaskId(batch.tasks[n])
                                /\ batch.results[m].success

\* C18: a task whose node is not registered is skipped, alone or in a
\* parallel batch: no agent is invoked for it, it changes nothing in the
\* state, it is no failure and causes no replan, and execution continues.
C18_UnregisteredIsSkipped ==
  [][/\ UnregisteredAlone => state' = state /\ calls' = calls /\ pc' = "loop"
                              /\ i' = i + 1
     /\ UnregisteredInBatch => pc' = "loop" /\ i' = batch.next_index
                               /\ \A m \in 1..Len(TraceOf(state')) :
                                    TraceOf(state')[m].node \in NODE_TO_FUNC]_vars

AtTask == pc = "loop" /\ i < Len(tasks)

\* the step runs the tasks at Python indexes i .. last - 1 as one batch:
\* alone in the main thread, or submitted together to the pool
RunsBatchUpTo(last) ==
  IF last - i > 1
  THEN /\ pc' = "batch"
       /\ batch'.tasks = SubSeq(tasks, i + 1, last)
       /\ batch'.pending = 1..(last - i)
       /\ calls' = calls
  ELSE /\ pc' # "batch" /\ batch' = batch
       /\ \A k \in (Len(calls) + 1)..Len(calls') :
            calls'[k] = Call(NodeName(tasks[i + 1]), "sync")

\* the index past the task at n and the parallel-flagged tasks right after it
FollowingParallel(ts, n) ==
  CHOOSE j \in (n + 1)..Len(ts) :
    /\ \A m \in (n + 2)..j : IsParallel(ts[m])
    /\ j = Len(ts) \/ ~IsParallel(ts[j + 1])

\* the grouping as stated: the flag of the task at the index plays no part
C19_GroupsWhateverFirstFlag == [][AtTask => RunsBatchUpTo(FollowingParallel(tasks, i))]_vars

\* C19: at the current index the batch is the task at that index plus, when
\* that task's parallel flag is true, every immediately following task whose
\* parallel flag is true; a task whose flag is not true runs alone.  A batch
\* of one runs synchronously, a batch of more than one concurrently.
C19_BatchGrouping ==
  [][AtTask => RunsBatchUpTo(IF IsParallel(tasks[i + 1])
                             THEN FollowingParallel(tasks, i) ELSE i + 1)]_vars

\* a task without the parallel flag has just run alone in the loop although
\* the task after it carries the flag
C19_Witness ==
  /\ pc = "loop" /\ i >= 1 /\ i < Len(tasks)
  /\ ~IsParallel(tasks[i]) /\ IsParallel(tasks[i + 1])
  /\ calls # <<>> /\ Last(calls) = Call(NodeName(tasks[i]), "sync")

\* C20: while workers of a batch are outstanding the RunState is not
\* modified and nothing is merged; once all have completed, the partial of
\* every task of the batch, successful or failed, is merged exactly once.
C20_BarrierAndIsolation ==
  [][pc = "batch"
       => IF batch.pending # {}
          THEN state' = state /\ pc' = "batch"
          ELSE /\ Len(batch.results) = Len(batch.tasks)
               /\ state' = recompute_remaining(MergeAll(state, batch.results))]_vars

\* the step collects the result of a worker whose agent raised
WorkerRaised ==
  /\ pc = "batch" /\ Len(batch'.results) = Len(batch.results) + 1
  /\ ~Last(batch'.results).success

\* the step merges a batch in which a worker failed
MergesFailedBatch ==
  /\ pc = "batch" /\ batch.pending = {}
  /\ \E m \in 1..Len(batch.results) : ~batch.results[m].success

MergedMessages == SubSeq(state'.messages, Len(state.messages) + 1, Len(state'.messages))

\* C21: a worker whose agent raises yields a failure result with one message
\* and one trace record naming the node and the error; the pool goes on, the
\* sibling workers complete and their results are merged, the failing
\* task_id is in the failure set, and the replanner is invoked after the merge.
C21_WorkerRaiseIsContained ==
  [][/\ WorkerRaised =>
          LET r == Last(batch'.results)
          IN /\ pc' = "batch"
             /\ Len(r.out.messages.items) = 1 /\ Len(r.out.trace.items) = 1
             /\ Has(r.out.trace.items[1], "error")
             /\ \E k \in batch.pending \ batch'.pending :
                  /\ r.out.trace.items[1].node = NodeName(batch.tasks[k])
                  /\ r.task_id = WorkerTaskId(batch.tasks[k])
     /\ MergesFailedBatch =>
          /\ Len(batch.results) = Len(batch.tasks)
          /\ \A m \in 1..Len(batch.results) :
               IF batch.results[m].success
               THEN \A n \in 1..Len(batch.results[m].out.messages.items) :
                      \E q \in 1..Len(MergedMessages) :
                        MergedMessages[q] = batch.results[m].out.messages.items[n]
               ELSE \E q \in 1..Len(failure_context'.failed_tasks) :
                      failure_context'.failed_tasks[q] = batch.results[m].task_id
          /\ pc' = "replan"]_vars

NonLog(s) == [k \in DOMAIN s \ {"messages", "trace"} |-> s[k]]

\* the orders in which n workers can complete
CompletionOrders(n) == {f \in [1..n -> 1..n] : \A a, b \in 1..n : a # b => f[a] # f[b]}

\* main.py:210-237 for the results collected in the order f
MergedInOrder(s, rs, f) ==
  recompute_remaining(MergeAll(s, DictItems([k \in 1..Len(rs) |-> rs[f[k]]])))

\* C22: no two tasks of a parallel batch write the same non-log key, so the
\* values of all keys other than messages and trace after the merge are the
\* same for every order in which the workers complete.
C22_MergeIsOrderIndependent ==
  [][pc = "batch" /\ batch.pending = {}
       => \A f \in CompletionOrders(Len(batch.results)) :
            NonLog(MergedInOrder(state, batch.results, f)) = NonLog(state')]_vars

\* the step is a replan that returns a plan and leaves replans to spare
ReplansWithinBudget ==
  pc = "replan" /\ pc' # "raised" /\ replan_count' <= MAX_REPLANS

\* the step is the first one of the loop on the plan a replan adopted
FirstAfterReplan ==
  /\ pc = "loop" /\ i = 0 /\ i < Len(tasks)
  /\ calls # <<>> /\ Last(calls) = Call("replanner_agent", "replan")

\* C23: after a failure that leaves replans to spare the orchestrator adopts
\* the replanner's plan as a whole and resumes at index 0: the next task
\* executed is the first task of the new plan, on both failure paths.
C23_RestartsNewPlanAtZero ==
  [][/\ ReplansWithinBudget =>
          /\ \E g \in ReplanGenResults :
               LET r == replanner_agent(failure_context.failing_task_id,
                                        CAPABILITY_MANIFEST, plan, llm, g, clock)
               IN ~r.raised /\ plan' = r.plan /\ tasks' = Get(r.plan, "tasks", <<>>)
          /\ pc' = "loop" /\ i' = 0
     /\ FirstAfterReplan =>
          /\ \/ pc' = "batch" /\ batch'.tasks[1] = tasks[1]
             \/ pc' # "batch" /\ i' = 1
                /\ \A k \in (Len(calls) + 1)..Len(calls') :
                     calls'[k] = Call(NodeName(tasks[1]), "sync")
             \/ pc' = "replan" /\ i' = 0
                /\ failure_context'.failing_task_id = Get(tasks[1], "task_id", "t1")]_vars

\* the first task of a plan adopted by a replan has just run, after a failure
\* on the synchronous path or on the parallel path
C23_Witness ==
  /\ pc = "loop" /\ i = 1 /\ replan_count >= 1 /\ Len(tasks) > 1
  /\ Len(calls) >= 3
  /\ calls[Len(calls) - 1] = Call("replanner_agent", "replan")
  /\ calls[Len(calls) - 2].via = "worker"
  /\ Last(calls) = Call(NodeName(tasks[1]), "sync")

ProbeIds == UNION {TaskIds(pl) : pl \in ProbePlans}

\* ids ending in "_retry" / "_retry_retry" among those the probe can meet
RetryIds == {id \o "_retry" : id \in ProbeIds}
RetryOfRetryIds == {id \o "_retry" : id \in RetryIds}

\* C24: a retry is one-shot: when a task whose task_id ends in "_retry" fails
\* the retry rule is not applied to it again, so no plan holds a task_id
\* ending in "_retry_retry".
C24_RetryIsOneShot ==
  Applied("replanner_agent") /\ ~probe.out.raised /\ probe.failing_id \in RetryIds
    => \A k \in 1..Len(TasksAfter) :
         Get(TasksAfter[k], "task_id", NoneStr) \notin RetryOfRetryIds

GenerationUnusable == ~probe.is_llm \/ ~WellFormed(probe.g)

\* C25: the replanner never fails the run: when the generative call fails,
\* raises or returns no mapping with a list under 'tasks', replanner_agent
\* returns, without raising, exactly the plan the deterministic rules give,
\* for every current plan and failure context.
C25_ReplannerNeverRaises ==
  Applied("replanner_agent")
    => /\ ~probe.out.raised
       /\ GenerationUnusable =>
            probe.out = deterministic_replan(probe.failing_id, probe.manifest,
                                             probe.current_plan, probe.now)

\* C26: the plan_ids of all plans adopted during one run, the initial plan
\* included, are pairwise distinct, also when two replans fall within the
\* same clock second.
C26_PlanIdsAreFresh ==
  \A a, b \in 1..Len(plan_ids) : a # b => plan_ids[a] # plan_ids[b]

\* a step of the executor handles one task: the first FLIGHT task, a
\* synchronous task, or the task of one worker
ExecutorStep == pc \in {"first", "loop", "batch"}

\* C27: there is no implicit retry at the executor layer: a task causes at
\* most one invocation of its agent, synchronously or in a worker, also when
\* the agent raises, TypeError included.
C27_NoImplicitRetry == [][ExecutorStep => Len(calls') <= Len(calls) + 1]_vars

(***************************************************************************)
(* Generation calls in time: invoke_llm_with_timeout and                   *)
(* safe_invoke_planner, helpers.py:188-252.  The underlying call either    *)
(* never returns, or ends after some ticks with a value, with text that    *)
(* is no JSON, or with an exception.  probe holds the caller's position    *)
(* `at`, the pool's worker, and the ticks elapsed since the call began.    *)
(***************************************************************************)
GenCalls ==
  {[returns |-> FALSE]}
    \cup {[returns |-> TRUE, after |-> n, as |-> o] :
            n \in 0..MaxLatency, o \in {"value", "bad_json", "raise"}}

\* the timeout argument, in ticks
GenTimeouts == {1, 2}

MaxElapsed == MaxLatency + 1

LiveInputs ==
  {[fn |-> "invoke_llm_with_timeout", call |-> <<c>>, timeout |-> t, attempt |-> 1,
    at |-> "start", worker |-> "idle", elapsed |-> 0, result |-> "none"] :
     c \in GenCalls, t \in GenTimeouts}
  \cup
  {[fn |-> "safe_invoke_planner", call |-> c, timeout |-> 0, attempt |-> 1,
    at |-> "start", worker |-> "idle", elapsed |-> 0, result |-> "none"] :
     c \in [1..MAX_LLM_ATTEMPTS -> GenCalls]}

LiveInit ==
  /\ llm = TRUE
  /\ session = EmptySession
  /\ clock = 0
  /\ pc = "gen"
  /\ plan = NoPlan
  /\ tasks = <<>>
  /\ state = InitialState(PriorBudget)
  /\ i = 0
  /\ replan_count = 0
  /\ failure_context = NoFailure
  /\ batch = NoBatch
  /\ calls = <<>>
  /\ plan_ids = <<>>
  /\ draws = 0
  /\ probe \in LiveInputs

Move(changes) ==
  /\ probe' = Update(probe, changes)
  /\ UNCHANGED <<llm, session, clock, pc, plan, tasks, state, i, replan_count,
                 failure_context, batch, calls, plan_ids, draws>>

CurrentCall == probe.call[probe.attempt]

Completes == CurrentCall.returns /\ probe.elapsed >= CurrentCall.after

\* time passes while the caller waits
LiveTick ==
  /\ pc = "gen" /\ probe.at \in {"waiting", "shutdown", "invoking"}
  /\ probe.elapsed < MaxElapsed
  /\ clock' = clock + 1
  /\ probe' = Update(probe, [elapsed |-> probe.elapsed + 1])
  /\ UNCHANGED <<llm, session, pc, plan, tasks, state, i, replan_count,
                 failure_context, batch, calls, plan_ids, draws>>

\* helpers.py:208-209: fut = ex.submit(_call) on a pool of one worker
LiveSubmit ==
  /\ pc = "gen" /\ probe.fn = "invoke_llm_with_timeout" /\ probe.at = "start"
  /\ Move([at |-> "waiting", worker |-> "running"])

\* helpers.py:197-206: _call ends in the worker thread, by return or raise
LiveWorkerEnds ==
  /\ pc = "gen" /\ probe.worker = "running" /\ Completes
  /\ Move([worker |-> "done"])

\* helpers.py:211-213 and 221-222: fut.result returns or re-raises
LiveResult ==
  /\ pc = "gen" /\ probe.at = "waiting" /\ probe.worker = "done"
  /\ Move([at |-> "shutdown",
           result |-> IF CurrentCall.as = "raise" THEN "fail" ELSE "ok"])

\* helpers.py:214-220: fut.result(timeout) raises; cancel() does nothing to
\* a call that is already running
LiveTimeout ==
  /\ pc = "gen" /\ probe.at = "waiting" /\ probe.worker = "running"
  /\ probe.elapsed >= probe.timeout
  /\ Move([at |-> "shutdown", result |-> "fail"])

\* helpers.py:208: leaving the with block is ex.shutdown(wait=True), which
\* joins the worker thread before the return statement takes effect
LiveShutdown ==
  /\ pc = "gen" /\ probe.at = "shutdown" /\ probe.worker = "done"
  /\ Move([at |-> "returned"])

\* helpers.py:230-232: the generation call, made in the caller's own thread
PlannerInvoke ==
  /\ pc = "gen" /\ probe.fn = "safe_invoke_planner" /\ probe.at = "start"
  /\ Move([at |-> "invoking", elapsed |-> 0])

\* helpers.py:233-252: parse the answer; invalid JSON fails at once, any
\* other exception goes to the next attempt or, past the last one, fails
PlannerAnswer ==
  /\ pc = "gen" /\ probe.at = "invoking" /\ Completes
  /\ CASE CurrentCall.as = "value" -> Move([at |-> "returned", result |-> "ok"])
       [] CurrentCall.as = "bad_json" -> Move([at |-> "returned", result |-> "fail"])
       [] CurrentCall.as = "raise" ->
            IF probe.attempt < MAX_LLM_ATTEMPTS
            THEN Move([at |-> "backoff"])
            ELSE Move([at |-> "returned", result |-> "fail"])

\* helpers.py:249-250: time.sleep(backoff * attempt), then the next attempt
PlannerBackoff ==
  /\ pc = "gen" /\ probe.at = "backoff"
  /\ Move([at |-> "start", attempt |-> probe.attempt + 1])

LiveNext ==
  \/ LiveTick \/ LiveSubmit \/ LiveWorkerEnds \/ LiveResult \/ LiveTimeout \/ LiveShutdown
  \/ PlannerInvoke \/ PlannerAnswer \/ PlannerBackoff

\* threads that can run do run, and time passes
LiveSpec ==
  /\ LiveInit /\ [][LiveNext]_vars
  /\ WF_vars(LiveTick) /\ WF_vars(LiveSubmit) /\ WF_vars(LiveWorkerEnds)
  /\ WF_vars(LiveResult) /\ WF_vars(LiveTimeout) /\ WF_vars(LiveShutdown)
  /\ WF_vars(PlannerInvoke) /\ WF_vars(PlannerAnswer) /\ WF_vars(PlannerBackoff)

\* C28: a generation call that never returns does not block its caller
\* forever: the caller of safe_invoke_planner and of invoke_llm_with_timeout
\* eventually gets a result, without waiting for the underlying call.
C28_GenerationCallerReturns == <>(probe.at = "returned")

\* task t with its on_success and on_failure fields, where present, set to w
Rewire(t, w) == [k \in DOMAIN t |-> IF k \in {"on_success", "on_failure"} THEN w ELSE t[k]]
RewireAll(ts, w) == [k \in 1..Len(ts) |-> Rewire(ts[k], w)]
EraseAll(ts) == RewireAll(ts, "")

\* task lists that differ from the current one in these two fields only:
\* every task routed to the terminal step, to the task at the index, or to
\* the task that failed
TwinTasks ==
  {RewireAll(tasks, w) :
     w \in {"BUDGET_REVIEW", failure_context.failing_task_id}
             \cup {Get(tasks[k], "task_id", NoneStr) : k \in {i + 1} \cap (1..Len(tasks))}}

NewCalls == SubSeq(calls', Len(calls) + 1, Len(calls'))

\* the step the run takes is the step the same executor takes on ts
SameStepOn(ts) ==
  /\ pc = "first" => (NewCalls # <<>> <=> NodeName(ts[1]) = "FLIGHT_AGENT")
  /\ AtTask /\ pc' = "batch" =>
       EraseAll(batch'.tasks) = EraseAll(SubSeq(ts, i + 1, NextIndex(ts, i)))
  /\ AtTask /\ pc' # "batch" =>
       /\ NextIndex(ts, i) = i + 1
       /\ \A k \in 1..Len(NewCalls) : NewCalls[k] = Call(NodeName(ts[i + 1]), "sync")
       /\ pc' = "replan" =>
            failure_context'.failing_task_id
              = Get(ts[i + 1], "task_id", "t" \o ToString(i + 1))
  /\ pc = "batch" /\ Len(batch'.results) > Len(batch.results) =>
       \E k \in batch.pending \ batch'.pending :
         /\ Last(batch'.results).task_id = WorkerTaskId(ts[i + k])
         /\ \A m \in 1..Len(NewCalls) : NewCalls[m] = Call(NodeName(ts[i + k]), "worker")
  /\ pc = "replan" =>
       \E g \in ReplanGenResults :
         LET r == replanner_agent(failure_context.failing_task_id, CAPABILITY_MANIFEST,
                                  Update(plan, [tasks |-> ts]), llm, g, clock)
         IN IF pc' = "raised" THEN r.raised
            ELSE /\ ~r.raised
                 /\ r.plan.plan_id = plan'.plan_id
                 /\ EraseAll(Get(r.plan, "tasks", <<>>)) = EraseAll(tasks')

\* C29: the on_success and on_failure fields of a task never influence which
\* task runs next or whether the replanner or a terminal step is invoked: a
\* plan that differs only in these fields gives the same steps.
C29_RoutingFieldsAreInert == [][\A ts \in TwinTasks : SameStepOn(ts)]_vars

\* a task whose on_failure names another task of the plan has failed, and
\* the replanner is about to be invoked for it
C29_Witness ==
  /\ pc = "replan"
  /\ \E k \in 1..Len(tasks) :
       /\ Get(tasks[k], "task_id", NoneStr) = failure_context.failing_task_id
       /\ \E m \in 1..Len(tasks) :
            m # k /\ Get(tasks[k], "on_failure", NoneStr) = Get(tasks[m], "task_id", "")

\* the step adopts a plan the deterministic rules made for a failing task
\* that is in the current plan
DeterministicReplanOfKnownTask ==
  /\ pc = "replan" /\ pc' # "raised"
  /\ plan'.plan_id[1] = "replan"
  /\ find_task(tasks, failure_context.failing_task_id) # 0

IsVariant(t) ==
  \/ "_retry_relax" \in Get(t, "inputs", {})
  \/ "_from_fallback" \in Get(t, "inputs", {})

\* C30: with the shipped manifest every deterministic replan whose failing
\* task is in the current plan applies the drop rule: no retry or fallback
\* variant is produced and the adopted plan has exactly one task fewer than
\* the plan it replaces.
C30_ShippedManifestDropsOne ==
  [][DeterministicReplanOfKnownTask
       => /\ Len(tasks') = Len(tasks) - 1
          /\ \A k \in 1..Len(tasks') : ~IsVariant(tasks'[k])]_vars

====
